---- MODULE Spec2Model ----
(***************************************************************************)
(* The preview-environment controller of src/src/main.rs: the watch loop   *)
(* of main, the event handler handle, the three document builders and the  *)
(* create/delete calls it issues against the cluster API.                  *)
(*                                                                         *)
(* The controller is a single sequential task; pc is its position.  The    *)
(* cluster API (the "gateway"), the event stream and the supervisor that   *)
(* kills/restarts the process are the environment.                         *)
(***************************************************************************)
EXTENDS Integers, Sequences, FiniteSets, TLC

VARIABLES
    pc,        \* position of the controller task in main / handle
    stream,    \* state of the current watch subscription (previews_stream)
    cluster,   \* dependent resources stored by the cluster API
    cur,       \* the event being handled (or last handled) and what it did
    prev,      \* the event delivered before cur, and what it did
    restarts   \* number of times the process was started again

vars == <<pc, stream, cluster, cur, prev, restarts>>

(***************************************************************************)
(* Bounds of the model.                                                    *)
(***************************************************************************)
MaxRestarts == 1

\* names of the watched PreviewEnvironment resources
Names == {"pr42", "test"}

\* the spec part of a PreviewEnvironment (image, fqdn)
Specs == { [image |-> "app:1", fqdn |-> "pr42.example.com"],
           [image |-> "app:2", fqdn |-> "other.example.com"] }

\* causes carried by a WatchEvent::Error
Causes == {"Gone"}

(***************************************************************************)
(* Data: the watched resource and the watch events.                        *)
(***************************************************************************)
\* the resourceVersion tokens a delivered resource may carry
Versions == {"101", "102"}

\* the (resourceVersion, spec) pairs delivered: two that differ only in the
\* resourceVersion, and one that differs in image and fqdn
Variants ==
    { <<v, s>> \in Versions \X Specs : v = "101" \/ s.image = "app:1" }

\* KubePreviewEnvironment: metadata {name, resourceVersion} and spec {image, fqdn}
KubePreviewEnvironment ==
    { [metadata |-> [name |-> n, resourceVersion |-> vs[1]], spec |-> vs[2]] :
        n \in Names, vs \in Variants }

\* WatchEvent<KubePreviewEnvironment>
WatchEvent ==
    { [type |-> t, pe |-> p] :
        t \in {"Added", "Modified", "Deleted"}, p \in KubePreviewEnvironment }
    \cup { [type |-> "Error", err |-> c] : c \in Causes }

NoEvent == [type |-> "None"]

\* let namespace = "default";
namespace == "default"

\* the three collections of ApiResources
Collections == {"deployments", "services", "mappings"}

(***************************************************************************)
(* Resource naming (the format! calls of handle).                          *)
(***************************************************************************)
deploy_name(pe) == pe.metadata.name \o "-deployment"

\* a slip in the service name: the suffix of the deployment
service_name_wrong(pe) == pe.metadata.name \o "-deployment"

service_name(pe) == pe.metadata.name \o "-service"

mapping_name(pe) == pe.metadata.name \o "-mapping"

host(pe) == pe.metadata.name \o ".volgenic.com"

\* the names the Deleted arm formats / hardcodes
deleted_service_name(pe) == pe.metadata.name \o "-service"

deleted_deploy_name(pe) == pe.metadata.name \o "-deployment"

deleted_mapping_name(pe) == "test-mapping"

(***************************************************************************)
(* Desired-state documents (the json! builders).                           *)
(***************************************************************************)
\* a line written by println!: the format string and its argument
Line(fmt, arg) == [fmt |-> fmt, arg |-> arg]

json_for_deployment(name) ==
    [ apiVersion |-> "apps/v1",
      kind       |-> "Deployment",
      metadata   |-> [ name |-> name, labels |-> [preview |-> "true"] ],
      spec       |-> [ replicas |-> 1,
                       selector |-> [ matchLabels |-> [app |-> name] ],
                       template |->
                         [ metadata |-> [ labels |-> [app |-> name] ],
                           spec     |-> [ containers |->
                                            << [name |-> name, image |-> "nginx"] >> ] ] ] ]

json_for_service(name) ==
    [ apiVersion |-> "v1",
      kind       |-> "Service",
      metadata   |-> [ name |-> name, labels |-> [preview |-> "true"] ],
      spec       |-> [ selector |-> [app |-> name],
                       ports    |-> << [protocol |-> "TCP", port |-> 80] >> ] ]

\* a slip in the builder: host and service exchanged
json_for_mapping_swapped(name, h, service) ==
    [ apiVersion |-> "getambassador.io/v2",
      kind       |-> "Mapping",
      metadata   |-> [ name |-> name ],
      spec       |-> [ host |-> service, service |-> h, prefix |-> "/" ] ]

json_for_mapping(name, h, service) ==
    [ apiVersion |-> "getambassador.io/v2",
      kind       |-> "Mapping",
      metadata   |-> [ name |-> name ],
      spec       |-> [ host |-> h, service |-> service, prefix |-> "/" ] ]

\* a slip in the handler: the container image taken from the source's spec
test_deploy_from_spec(pe) ==
    [ json_for_deployment(deploy_name(pe)) EXCEPT
        !.spec.template.spec.containers =
            << [name |-> deploy_name(pe), image |-> pe.spec.image] >> ]

\* let test_deploy = json_for_deployment(deploy_name.as_str());
test_deploy(pe) == json_for_deployment(deploy_name(pe))

\* let test_service = json_for_service(service_name.as_str());
test_service(pe) == json_for_service(service_name(pe))

\* let test_mapping = json_for_mapping(mapping_name, host, service_name);
test_mapping(pe) == json_for_mapping(mapping_name(pe), host(pe), service_name(pe))

(***************************************************************************)
(* The cluster API as seen through create and delete (the environment).    *)
(* A stored resource is [coll, ns, doc]; it is keyed by collection,        *)
(* namespace and doc.metadata.name.                                        *)
(***************************************************************************)
Exists(cl, coll, ns, name) ==
    \E r \in cl : r.coll = coll /\ r.ns = ns /\ r.doc.metadata.name = name

\* the answers a create may get
CreateResults(cl, coll, ns, doc) ==
    (IF Exists(cl, coll, ns, doc.metadata.name) THEN {"AlreadyExists"} ELSE {"Ok"})
    \cup {"Transient", "Rejected"}

\* the answers a delete may get
DeleteResults(cl, coll, ns, name) ==
    (IF Exists(cl, coll, ns, name) THEN {"Ok"} ELSE {"NotFound"})
    \cup {"Transient"}

ApplyCreate(cl, coll, ns, doc, res) ==
    IF res = "Ok" THEN cl \cup { [coll |-> coll, ns |-> ns, doc |-> doc] } ELSE cl

ApplyDelete(cl, coll, ns, name, res) ==
    IF res = "Ok"
    THEN { r \in cl : ~(r.coll = coll /\ r.ns = ns /\ r.doc.metadata.name = name) }
    ELSE cl

\* the record of a request the cluster API received
CreateCall(coll, ns, doc, res) ==
    [ op |-> "create", coll |-> coll, ns |-> ns, name |-> doc.metadata.name,
      doc |-> doc, result |-> res ]

DeleteCall(coll, ns, name, res) ==
    [ op |-> "delete", coll |-> coll, ns |-> ns, name |-> name, result |-> res ]

\* the record of a request built by a RawApi (built is not sent)
RawRequest(op, coll, ns, name) ==
    [ op |-> op, coll |-> coll, ns |-> ns, name |-> name ]

(***************************************************************************)
(* it, the RawApi requests built for it, the lines handle printed for it,   *)
(* the cluster when it was delivered, and how its handling ended.          *)
(***************************************************************************)
Idle ==
    [ ev |-> NoEvent, calls |-> <<>>, reqs |-> <<>>, out |-> <<>>, pre |-> {},
      end |-> "none" ]

Begin(ev, cl) ==
    [ ev |-> ev, calls |-> <<>>, reqs |-> <<>>, out |-> <<>>, pre |-> cl,
      end |-> "running" ]

Terminal == {"exited", "panicked", "killed"}

Init ==
    /\ pc = "init"
    /\ stream = "none"
    /\ cluster = {}
    /\ cur = Idle
    /\ prev = Idle
    /\ restarts = 0

(***************************************************************************)
(* main                                                                    *)
(***************************************************************************)
\* load_kube_config().await? ... Informer::raw(..).init().await?
MainInit ==
    /\ pc = "init"
    /\ \E ok \in BOOLEAN : pc' = IF ok THEN "poll" ELSE "exited"
    /\ UNCHANGED <<stream, cluster, cur, prev, restarts>>

\* let mut previews_stream = informer.poll().await?.boxed();
Poll ==
    /\ pc = "poll"
    /\ \E ok \in BOOLEAN :
         IF ok THEN pc' = "next" /\ stream' = "open"
               ELSE pc' = "exited" /\ stream' = "refused"
    /\ UNCHANGED <<cluster, cur, prev, restarts>>

\* a slip in the loop: the end of the stream leaves main
StreamEndExits ==
    /\ pc = "next"
    /\ stream = "open"
    /\ pc' = "exited"
    /\ stream' = "done"
    /\ UNCHANGED <<cluster, cur, prev, restarts>>

\* previews_stream.next().await yields None: the while let ends, the loop
\* goes round to informer.poll()
StreamEnd ==
    /\ pc = "next"
    /\ stream = "open"
    /\ pc' = "poll"
    /\ stream' = "done"
    /\ UNCHANGED <<cluster, cur, prev, restarts>>

\* previews_stream.next().await yields Some(Err(_)): event? returns from main
StreamError ==
    /\ pc = "next"
    /\ stream = "open"
    /\ pc' = "exited"
    /\ stream' = "failed"
    /\ UNCHANGED <<cluster, cur, prev, restarts>>

\* a slip in the match: the Modified arm reconciles like the Added arm
HandleArmModifiedReconciles(ev) ==
    CASE ev.type \in {"Added", "Modified"} ->
           [ pc  |-> "create_deployment", end |-> "running",
             out |-> << Line("Add PreviewEnvironment name: {}", ev.pe.metadata.name) >> ]
      [] ev.type = "Deleted" ->
           [ pc  |-> "delete_service", end |-> "running",
             out |-> << Line("Deleted PreviewEnvironment name: {}", ev.pe.metadata.name) >> ]
      [] ev.type = "Error" ->
           [ pc  |-> "next", end |-> "returned",
             out |-> << Line("{:?}", ev.err) >> ]

\* a slip in the match: the Error arm panics with the cause
HandleArmErrorPanics(ev) ==
    CASE ev.type = "Added" ->
           [ pc  |-> "create_deployment", end |-> "running",
             out |-> << Line("Add PreviewEnvironment name: {}", ev.pe.metadata.name) >> ]
      [] ev.type = "Deleted" ->
           [ pc  |-> "delete_service", end |-> "running",
             out |-> << Line("Deleted PreviewEnvironment name: {}", ev.pe.metadata.name) >> ]
      [] ev.type = "Modified" ->
           [ pc  |-> "next", end |-> "returned",
             out |-> << Line("Modified PreviewEnvironment name: {}", ev.pe.metadata.name) >> ]
      [] ev.type = "Error" ->
           [ pc  |-> "panicked", end |-> "panicked",
             out |-> << Line("{:?}", ev.err) >> ]

\* the match of handle: the arm entered for the event, what the arm prints
\* first, and whether the arm is over with that.  The Modified and Error arms
\* only print and return.
HandleArm(ev) ==
    CASE ev.type = "Added" ->
           [ pc  |-> "create_deployment", end |-> "running",
             out |-> << Line("Add PreviewEnvironment name: {}", ev.pe.metadata.name) >> ]
      [] ev.type = "Deleted" ->
           [ pc  |-> "delete_service", end |-> "running",
             out |-> << Line("Deleted PreviewEnvironment name: {}", ev.pe.metadata.name) >> ]
      [] ev.type = "Modified" ->
           [ pc  |-> "next", end |-> "returned",
             out |-> << Line("Modified PreviewEnvironment name: {}", ev.pe.metadata.name) >> ]
      [] ev.type = "Error" ->
           [ pc  |-> "next", end |-> "returned",
             out |-> << Line("{:?}", ev.err) >> ]

\* a slip in the loop: handle is started but not awaited, so the next event
\* is pulled while the calls of the last one are still being issued
StreamEventNotAwaited ==
    /\ pc \in {"next", "create_deployment", "create_service", "create_mapping",
                "delete_service", "delete_deployment", "delete_mapping"}
    /\ stream = "open"
    /\ \E ev \in WatchEvent :
         /\ prev' = cur
         /\ pc' = HandleArm(ev).pc
         /\ cur' = [Begin(ev, cluster) EXCEPT !.end = HandleArm(ev).end,
                                              !.out = HandleArm(ev).out]
    /\ UNCHANGED <<stream, cluster, restarts>>

\* previews_stream.next().await yields Some(Ok(event)): handle(&resources, event)
\* is entered and awaited.
StreamEvent ==
    /\ pc = "next"
    /\ stream = "open"
    /\ \E ev \in WatchEvent :
         /\ prev' = cur
         /\ pc' = HandleArm(ev).pc
         /\ cur' = [Begin(ev, cluster) EXCEPT !.end = HandleArm(ev).end,
                                              !.out = HandleArm(ev).out]
    /\ UNCHANGED <<stream, cluster, restarts>>

(***************************************************************************)
(* handle, the Added arm                                                   *)
(***************************************************************************)
\* One create issued through the typed Api or through client.request: the
\* answer is awaited and expect/unwrap panics on every Err.
\* lines: what is printed on the way to the call.
Create(coll, doc, okpc, okend, lines) ==
    \E res \in CreateResults(cluster, coll, namespace, doc) :
        /\ cluster' = ApplyCreate(cluster, coll, namespace, doc, res)
        /\ pc' = IF res = "Ok" THEN okpc ELSE "panicked"
        /\ cur' = [cur EXCEPT
                     !.calls = Append(@, CreateCall(coll, namespace, doc, res)),
                     !.out   = @ \o lines,
                     !.reqs  = IF coll = "mappings"
                               THEN Append(@, RawRequest("create", coll, namespace,
                                                         doc.metadata.name))
                               ELSE @,
                     !.end   = IF res = "Ok" THEN okend ELSE "panicked"]
        /\ UNCHANGED <<stream, prev, restarts>>

\* create_deployment(&resources.deployments, &json_for_deployment(deploy_name))
CreateDeployment ==
    /\ pc = "create_deployment"
    /\ Create("deployments", test_deploy(cur.ev.pe), "create_service", "running", <<>>)

\* create_service(&resources.services, &json_for_service(service_name))
CreateService ==
    /\ pc = "create_service"
    /\ Create("services", test_service(cur.ev.pe), "create_mapping", "running", <<>>)

\* create_mapping(&resources, &json_for_mapping(mapping_name, host, service_name))
\* The request is built by the RawApi and sent with client.request::<Service>;
\* the answer is read as a Service object, whose spec fields are all optional,
\* so a stored Mapping reads back without error.
CreateMapping ==
    /\ pc = "create_mapping"
    /\ Create("mappings", test_mapping(cur.ev.pe), "next", "returned",
              << Line("About to create mapping {:?}", test_mapping(cur.ev.pe)),
                 Line("Mappings resource {:?}", "mappings"),
                 Line("before", "") >>)

(***************************************************************************)
(* handle, the Deleted arm                                                 *)
(***************************************************************************)
\* One delete issued through the typed Api: awaited, unwrap panics on Err.
Delete(coll, name, okpc) ==
    \E res \in DeleteResults(cluster, coll, namespace, name) :
        /\ cluster' = ApplyDelete(cluster, coll, namespace, name, res)
        /\ pc' = IF res = "Ok" THEN okpc ELSE "panicked"
        /\ cur' = [cur EXCEPT
                     !.calls = Append(@, DeleteCall(coll, namespace, name, res)),
                     !.end   = IF res = "Ok" THEN @ ELSE "panicked"]
        /\ UNCHANGED <<stream, prev, restarts>>

\* a slip in the order: the deployment is deleted where the service should be
DeleteDeploymentFirst ==
    /\ pc = "delete_service"
    /\ Delete("deployments", deleted_deploy_name(cur.ev.pe), "delete_deployment")

\* resources.services.delete(format!("{}-service", ..)).await.unwrap();
DeleteService ==
    /\ pc = "delete_service"
    /\ Delete("services", deleted_service_name(cur.ev.pe), "delete_deployment")

\* resources.deployments.delete(format!("{}-deployment", ..)).await.unwrap();
DeleteDeployment ==
    /\ pc = "delete_deployment"
    /\ Delete("deployments", deleted_deploy_name(cur.ev.pe), "delete_mapping")

\* resources.mappings.delete("test-mapping", ..).unwrap();
\* mappings is a RawApi: delete only builds the request.  The request is
\* dropped, nothing is sent, and the arm returns.
DeleteMapping ==
    /\ pc = "delete_mapping"
    /\ pc' = "next"
    /\ cur' = [cur EXCEPT
                 !.reqs = Append(@, RawRequest("delete", "mappings", namespace,
                                               deleted_mapping_name(cur.ev.pe))),
                 !.end  = "returned"]
    /\ UNCHANGED <<stream, cluster, prev, restarts>>

(***************************************************************************)
(* The supervisor: the process can be killed at any point, and a process   *)
(* that ended is started again.                                            *)
(***************************************************************************)
Kill ==
    /\ pc \notin Terminal
    /\ pc' = "killed"
    /\ stream' = "none"
    /\ cur' = IF cur.end = "running" THEN [cur EXCEPT !.end = "killed"] ELSE cur
    /\ UNCHANGED <<cluster, prev, restarts>>

Restart ==
    /\ pc \in Terminal
    /\ restarts < MaxRestarts
    /\ pc' = "init"
    /\ stream' = "none"
    /\ restarts' = restarts + 1
    /\ UNCHANGED <<cluster, cur, prev>>

Next ==
    \/ MainInit
    \/ Poll
    \/ StreamEnd
    \/ StreamError
    \/ StreamEvent
    \/ CreateDeployment
    \/ CreateService
    \/ CreateMapping
    \/ DeleteService
    \/ DeleteDeployment
    \/ DeleteMapping
    \/ Kill
    \/ Restart

Spec == Init /\ [][Next]_vars

(***************************************************************************)
(* Vocabulary of the properties.                                           *)
(***************************************************************************)
\* the key (collection, namespace, name) of every stored resource
Keys(cl) == { <<r.coll, r.ns, r.doc.metadata.name>> : r \in cl }

\* the three dependents a source named n is meant to have
ExpectedKeys(n) ==
    { <<"deployments", "default", n \o "-deployment">>,
      <<"services",    "default", n \o "-service">>,
      <<"mappings",    "default", n \o "-mapping">> }

DepNames(n) == { n \o "-deployment", n \o "-service", n \o "-mapping" }

\* the stored resources that carry one of n's dependent names
DependentsOf(cl, n) == { k \in Keys(cl) : k[3] \in DepNames(n) }

\* the handler of the event ran to its own end (it was not killed)
Ended(w) == w.end \in {"returned", "panicked"}

Results(calls) == { calls[i].result : i \in DOMAIN calls }

NCreates(calls) == Cardinality({ i \in DOMAIN calls : calls[i].op = "create" })

\* what the cluster API saw of a call: operation, collection, name and, for
\* a mapping, the host and the service it routes to
CallSig(c) ==
    IF c.op = "create" /\ c.coll = "mappings"
    THEN <<c.op, c.coll, c.name, c.doc.spec.host, c.doc.spec.service>>
    ELSE <<c.op, c.coll, c.name>>

CallSigs(calls) == [ i \in DOMAIN calls |-> CallSig(calls[i]) ]

\* the names a handler addressed: through calls received by the cluster API
\* or through requests it built
Targeted(w) ==
    { w.calls[i].name : i \in DOMAIN w.calls } \cup { w.reqs[i].name : i \in DOMAIN w.reqs }

(***************************************************************************)
(* C1  Idempotent convergence.  Handling Added(r) a second time, right     *)
(* after a first handling that returned, with every create of the second   *)
(* pass answered AlreadyExists: the handler returns (no failure), six      *)
(* creates were attempted over the two passes, r's dependents in the       *)
(* cluster are exactly the three expected, and the cluster is what it was  *)
(* after the first pass.                                                   *)
(***************************************************************************)
C1_IdempotentAdded ==
    ( /\ prev.ev.type = "Added"
      /\ prev.end = "returned"
      /\ cur.ev = prev.ev
      /\ Ended(cur)
      /\ Results(cur.calls) \subseteq {"AlreadyExists"} )
    => /\ cur.end = "returned"
       /\ NCreates(prev.calls) + NCreates(cur.calls) = 6
       /\ DependentsOf(cluster, cur.ev.pe.metadata.name)
            = ExpectedKeys(cur.ev.pe.metadata.name)
       /\ cluster = cur.pre

(***************************************************************************)
(* C2  Deletion safety.  Handling Deleted(r) when none of r's dependents   *)
(* exists, every delete answered NotFound, ends by returning normally.     *)
(***************************************************************************)
C2_DeletedNotFoundReturns ==
    ( /\ cur.ev.type = "Deleted"
      /\ DependentsOf(cur.pre, cur.ev.pe.metadata.name) = {}
      /\ Ended(cur)
      /\ Results(cur.calls) \subseteq {"NotFound"} )
    => cur.end = "returned"

(***************************************************************************)
(* C3  Partial-failure isolation on Added.  When the create of the         *)
(* Deployment fails with Transient or Rejected, the handler has, by its    *)
(* end, also attempted the create of the Service and of the Mapping.       *)
(***************************************************************************)
C3_AddedAttemptsAllThree ==
    ( /\ cur.ev.type = "Added"
      /\ Ended(cur)
      /\ Len(cur.calls) >= 1
      /\ cur.calls[1].coll = "deployments"
      /\ cur.calls[1].result \in {"Transient", "Rejected"} )
    => /\ \E i \in DOMAIN cur.calls :
            cur.calls[i].op = "create" /\ cur.calls[i].coll = "services"
       /\ \E i \in DOMAIN cur.calls :
            cur.calls[i].op = "create" /\ cur.calls[i].coll = "mappings"

(***************************************************************************)
(* C4  The watch loop survives event processing.  Whatever the create and  *)
(* delete calls of an event answer, the controller is not terminated by    *)
(* the handling of the event.                                              *)
(***************************************************************************)
C4_HandlingNeverTerminates ==
    pc # "panicked" /\ cur.end # "panicked" /\ prev.end # "panicked"

(***************************************************************************)
(* C5  Crash-restart recovery.  The process was killed while handling      *)
(* Added(r); after the restart Added(r) is delivered again and handled to  *)
(* its end with the cluster API answering truthfully (Ok or                *)
(* AlreadyExists): the cluster then holds all three dependents of r.       *)
(***************************************************************************)
C5_RedeliveryRestoresDependents ==
    ( /\ prev.ev.type = "Added"
      /\ prev.end = "killed"
      /\ cur.ev = prev.ev
      /\ Ended(cur)
      /\ Results(cur.calls) \subseteq {"Ok", "AlreadyExists"} )
    => ExpectedKeys(cur.ev.pe.metadata.name) \subseteq Keys(cluster)

(***************************************************************************)
(* C6  Added then Deleted.  With every call answered Ok, the cluster API   *)
(* receives for Added(N) followed by Deleted(N) exactly: create            *)
(* N-deployment, create N-service, create N-mapping (host N.volgenic.com,  *)
(* service N-service), delete N-service, delete N-deployment, delete       *)
(* N-mapping.                                                              *)
(***************************************************************************)
C6_AddedThenDeletedCalls ==
    ( /\ prev.ev.type = "Added"
      /\ cur.ev.type = "Deleted"
      /\ cur.ev.pe = prev.ev.pe
      /\ Ended(prev)
      /\ Ended(cur)
      /\ Results(prev.calls \o cur.calls) \subseteq {"Ok"} )
    => LET n == cur.ev.pe.metadata.name IN
       CallSigs(prev.calls \o cur.calls) =
         << <<"create", "deployments", n \o "-deployment">>,
            <<"create", "services",    n \o "-service">>,
            <<"create", "mappings",    n \o "-mapping",
              n \o ".volgenic.com", n \o "-service">>,
            <<"delete", "services",    n \o "-service">>,
            <<"delete", "deployments", n \o "-deployment">>,
            <<"delete", "mappings",    n \o "-mapping">> >>

(***************************************************************************)
(* C7  Naming determinism across handlers.  The names the Deleted handler  *)
(* addresses for a source N are the three names the Added handler creates: *)
(* N-deployment, N-service, N-mapping.                                     *)
(***************************************************************************)
C7_DeletedTargetsDerivedNames ==
    ( cur.ev.type = "Deleted" /\ cur.end = "returned" )
    => Targeted(cur) = DepNames(cur.ev.pe.metadata.name)

(***************************************************************************)
(* C8  Convergence after Added.  From a cluster with no dependent of N,    *)
(* once Added(N) was handled with every create answered Ok, the cluster    *)
(* holds what it held before plus exactly N-deployment in deployments,     *)
(* N-service in services and N-mapping in mappings, each once and each in  *)
(* the namespace "default".                                                *)
(***************************************************************************)
C8_AddedConverges ==
    ( /\ cur.ev.type = "Added"
      /\ cur.end = "returned"
      /\ DependentsOf(cur.pre, cur.ev.pe.metadata.name) = {}
      /\ Results(cur.calls) \subseteq {"Ok"} )
    => LET n == cur.ev.pe.metadata.name IN
       /\ Keys(cluster) = Keys(cur.pre) \cup ExpectedKeys(n)
       /\ DependentsOf(cluster, n) = ExpectedKeys(n)
       /\ Cardinality(cluster) = Cardinality(cur.pre) + 3
       /\ \A k \in ExpectedKeys(n) :
            Cardinality({ r \in cluster : r.coll = k[1] /\ r.doc.metadata.name = k[3] }) = 1

C8_Witness ==
    /\ cur.ev.type = "Added"
    /\ cur.end = "returned"
    /\ DependentsOf(cur.pre, cur.ev.pe.metadata.name) = {}
    /\ cur.pre # {}
    /\ Len(cur.calls) = 3
    /\ Results(cur.calls) = {"Ok"}

(***************************************************************************)
(* C9  Cross-reference correctness.  The Mapping document sent while       *)
(* handling Added(N) is named N-mapping, routes host N.volgenic.com with   *)
(* prefix "/" to service N-service, and N-service is the name of the       *)
(* Service document created earlier in the same event.                     *)
(***************************************************************************)
C9_MappingCrossReference ==
    \A i \in DOMAIN cur.calls :
        ( cur.calls[i].op = "create" /\ cur.calls[i].coll = "mappings" )
        => LET n == cur.ev.pe.metadata.name
               d == cur.calls[i].doc
           IN  /\ cur.ev.type = "Added"
               /\ d.kind = "Mapping"
               /\ d.metadata.name = n \o "-mapping"
               /\ d.spec.service = n \o "-service"
               /\ d.spec.host = n \o ".volgenic.com"
               /\ d.spec.prefix = "/"
               /\ \E j \in 1..(i - 1) :
                    /\ cur.calls[j].op = "create"
                    /\ cur.calls[j].coll = "services"
                    /\ cur.calls[j].result = "Ok"
                    /\ cur.calls[j].doc.metadata.name = d.spec.service

C9_Witness ==
    /\ cur.ev.type = "Added"
    /\ \E i \in DOMAIN cur.calls :
         /\ cur.calls[i].op = "create"
         /\ cur.calls[i].coll = "mappings"
         /\ cur.calls[i].result = "Ok"

(***************************************************************************)
(* C10  Resubscribe on stream exhaustion.  When the stream completes the   *)
(* controller is not terminated: it stands at informer.poll(), about to    *)
(* subscribe again, and the subscription that poll then opens is consumed  *)
(* by the same loop.                                                       *)
(***************************************************************************)
C10_ResubscribeOnExhaustion ==
    /\ [](stream = "done" => pc = "poll")
    /\ [][(stream = "open" /\ stream' = "done") => pc' = "poll"]_vars
    /\ [][(stream = "done" /\ stream' = "open") => pc' = "next"]_vars

C10_Witness ==
    /\ stream = "done"
    /\ pc = "poll"
    /\ cur.end = "returned"

(***************************************************************************)
(* C11  Resubscribe on stream error.  When the stream yields a failed      *)
(* item the controller is not terminated by it.                            *)
(***************************************************************************)
C11_StreamErrorKeepsRunning ==
    ~(stream = "failed" /\ pc = "exited")

(***************************************************************************)
(* C12  Retry of subscription establishment.  When informer.poll() fails   *)
(* inside the loop the controller is not terminated by it.                 *)
(***************************************************************************)
C12_PollFailureKeepsRunning ==
    ~(stream = "refused" /\ pc = "exited")

(***************************************************************************)
(* C13  Modified is a no-op.  The handling of Modified(r) sends no call,   *)
(* builds no request, leaves the cluster as it was and returns.            *)
(***************************************************************************)
C13_ModifiedIsNoOp ==
    cur.ev.type = "Modified"
    => /\ cur.calls = <<>>
       /\ cur.reqs = <<>>
       /\ cluster = cur.pre
       /\ cur.end = "returned"

C13_Witness ==
    /\ cur.ev.type = "Modified"
    /\ ExpectedKeys(cur.ev.pe.metadata.name) \subseteq Keys(cur.pre)
    /\ pc = "next"

(***************************************************************************)
(* C14  Error events are non-fatal.  The handling of Error(cause) prints   *)
(* the cause and nothing else, sends no call, builds no request, leaves    *)
(* the cluster as it was and returns; the step that delivers it leaves the *)
(* loop at previews_stream.next() with the stream open.                    *)
(***************************************************************************)
C14_ErrorEventNonFatal ==
    /\ [](cur.ev.type = "Error"
          => /\ cur.calls = <<>>
             /\ cur.reqs = <<>>
             /\ cur.out = << [fmt |-> "{:?}", arg |-> cur.ev.err] >>
             /\ cluster = cur.pre
             /\ cur.end = "returned")
    /\ [][(prev' = cur /\ (cur' # cur \/ prev' # prev) /\ cur'.ev.type = "Error")
          => (pc' = "next" /\ stream' = "open")]_vars

C14_Witness ==
    /\ prev.ev.type = "Error"
    /\ cur.ev.type = "Added"
    /\ Len(cur.calls) = 3
    /\ restarts = 0

(***************************************************************************)
(* C15  Strictly sequential consumption.  An event is pulled only at       *)
(* previews_stream.next() and only when the handling of the event before   *)
(* it is over, the event before it becomes prev unchanged, and calls are   *)
(* only ever added to the event being handled: the calls of two events     *)
(* never interleave.                                                       *)
(***************************************************************************)
C15_SequentialConsumption ==
    /\ [](prev.end # "running")
    /\ [](pc = "next" => cur.end # "running")
    /\ [][(prev' # prev \/ cur'.ev # cur.ev)
          => (pc = "next" /\ cur.end # "running" /\ prev' = cur)]_vars
    /\ [][(Len(cur'.calls) > Len(cur.calls))
          => (cur.end = "running" /\ prev' = prev /\ cur'.ev = cur.ev)]_vars

C15_Witness ==
    /\ prev.end = "returned"
    /\ Len(prev.calls) = 3
    /\ cur.ev.type = "Deleted"
    /\ Len(cur.calls) = 2
    /\ restarts = 0

(***************************************************************************)
(* C16  Partial-failure isolation on Deleted.  When the delete of the      *)
(* Service fails with NotFound or Transient, the handler has, by its end,  *)
(* also attempted the delete of the Deployment and of the Mapping.         *)
(***************************************************************************)
C16_DeletedAttemptsAllThree ==
    ( /\ cur.ev.type = "Deleted"
      /\ Ended(cur)
      /\ Len(cur.calls) >= 1
      /\ cur.calls[1].coll = "services"
      /\ cur.calls[1].result \in {"NotFound", "Transient"} )
    => /\ \E i \in DOMAIN cur.calls :
            cur.calls[i].op = "delete" /\ cur.calls[i].coll = "deployments"
       /\ \/ \E i \in DOMAIN cur.calls :
               cur.calls[i].op = "delete" /\ cur.calls[i].coll = "mappings"
          \/ \E i \in DOMAIN cur.reqs :
               cur.reqs[i].op = "delete" /\ cur.reqs[i].coll = "mappings"

(***************************************************************************)
(* C17  No dangling route during deletion, as claimed: while Deleted(N) is *)
(* being handled there is no cluster state in which the Mapping N-mapping  *)
(* exists and routes to N-service while the Service N-service, present     *)
(* when the event was delivered, has been deleted.                         *)
(***************************************************************************)
C17_NoDanglingRoute ==
    ( cur.ev.type = "Deleted" /\ cur.end = "running" )
    => LET n == cur.ev.pe.metadata.name IN
       ~ ( /\ \E r \in cluster :
                /\ r.coll = "mappings"
                /\ r.doc.metadata.name = n \o "-mapping"
                /\ r.doc.spec.service = n \o "-service"
           /\ <<"services", "default", n \o "-service">> \in Keys(cur.pre)
           /\ <<"services", "default", n \o "-service">> \notin Keys(cluster) )

(***************************************************************************)
(* C17 (amended)  The Service goes first: while and after Deleted(N) is    *)
(* handled there is no cluster state in which the Deployment N-deployment  *)
(* or the Mapping N-mapping, present when the event was delivered, is gone *)
(* while the Service N-service still exists.                               *)
(***************************************************************************)
C17_ServiceDeletedFirst ==
    cur.ev.type = "Deleted"
    => LET n   == cur.ev.pe.metadata.name
           svc == <<"services", "default", n \o "-service">>
       IN  \A k \in { <<"deployments", "default", n \o "-deployment">>,
                      <<"mappings", "default", n \o "-mapping">> } :
             (k \in Keys(cur.pre) /\ k \notin Keys(cluster))
             => svc \notin Keys(cluster)

C17_Witness ==
    /\ cur.ev.type = "Deleted"
    /\ cur.end = "running"
    /\ ExpectedKeys(cur.ev.pe.metadata.name) \subseteq Keys(cur.pre)
    /\ <<"deployments", "default", cur.ev.pe.metadata.name \o "-deployment">>
         \notin Keys(cluster)
    /\ <<"services", "default", cur.ev.pe.metadata.name \o "-service">>
         \notin Keys(cluster)
    /\ <<"mappings", "default", cur.ev.pe.metadata.name \o "-mapping">>
         \in Keys(cluster)

(***************************************************************************)
(* C18  Cross-name isolation.  Every name the handler addresses for an     *)
(* event on N, in a call sent or in a request built, is one of             *)
(* N-deployment, N-service, N-mapping, and none is a dependent name of     *)
(* another source M.                                                       *)
(***************************************************************************)
C18_CrossNameIsolation ==
    cur.ev.type \in {"Added", "Modified", "Deleted"}
    => LET n == cur.ev.pe.metadata.name IN
       /\ Targeted(cur) \subseteq DepNames(n)
       /\ \A m \in Names \ {n} : Targeted(cur) \cap DepNames(m) = {}

(***************************************************************************)
(* C19  The calls depend only on the kind of the event and the name of the *)
(* source.  What an Added or Deleted handler sends and builds is a prefix  *)
(* of (and, when it returns, all of) the same sequence of requests and     *)
(* documents for every resource of that name, whatever its image, fqdn and *)
(* resourceVersion; two consecutive events of the same kind and name agree *)
(* call by call; and no document carries an image or an fqdn of a source.  *)
(***************************************************************************)
Sent(calls) ==
    [ i \in DOMAIN calls |->
        IF calls[i].op = "create"
        THEN <<calls[i].op, calls[i].coll, calls[i].ns, calls[i].name, calls[i].doc>>
        ELSE <<calls[i].op, calls[i].coll, calls[i].ns, calls[i].name>> ]

\* what the handler of an event of this kind would send for the resource pe
CallPlan(type, pe) ==
    IF type = "Added"
    THEN << <<"create", "deployments", namespace, test_deploy(pe).metadata.name,
              test_deploy(pe)>>,
            <<"create", "services", namespace, test_service(pe).metadata.name,
              test_service(pe)>>,
            <<"create", "mappings", namespace, test_mapping(pe).metadata.name,
              test_mapping(pe)>> >>
    ELSE << <<"delete", "services", namespace, deleted_service_name(pe)>>,
            <<"delete", "deployments", namespace, deleted_deploy_name(pe)>> >>

\* the RawApi requests it would build
RequestPlan(type, pe) ==
    IF type = "Added"
    THEN << RawRequest("create", "mappings", namespace, mapping_name(pe)) >>
    ELSE << RawRequest("delete", "mappings", namespace, deleted_mapping_name(pe)) >>

IsPrefix(a, b) == Len(a) <= Len(b) /\ \A i \in DOMAIN a : a[i] = b[i]

SpecStrings == { s.image : s \in Specs } \cup { s.fqdn : s \in Specs }

C19_CallsDependOnKindAndName ==
    cur.ev.type \in {"Added", "Deleted"}
    => /\ \A pe2 \in KubePreviewEnvironment :
            pe2.metadata.name = cur.ev.pe.metadata.name
            => /\ IsPrefix(Sent(cur.calls), CallPlan(cur.ev.type, pe2))
               /\ IsPrefix(cur.reqs, RequestPlan(cur.ev.type, pe2))
               /\ cur.end = "returned"
                  => /\ Sent(cur.calls) = CallPlan(cur.ev.type, pe2)
                     /\ cur.reqs = RequestPlan(cur.ev.type, pe2)
       /\ ( prev.ev.type = cur.ev.type
            /\ prev.ev.pe.metadata.name = cur.ev.pe.metadata.name )
          => \A i \in DOMAIN prev.calls \cap DOMAIN cur.calls :
                Sent(prev.calls)[i] = Sent(cur.calls)[i]
       /\ \A i \in DOMAIN cur.calls :
            /\ (cur.calls[i].op = "create" /\ cur.calls[i].coll = "deployments")
               => \A j \in DOMAIN cur.calls[i].doc.spec.template.spec.containers :
                    cur.calls[i].doc.spec.template.spec.containers[j].image
                      \notin SpecStrings
            /\ (cur.calls[i].op = "create" /\ cur.calls[i].coll = "mappings")
               => cur.calls[i].doc.spec.host \notin SpecStrings

C19_Witness ==
    /\ prev.ev.type = "Added"
    /\ cur.ev.type = "Added"
    /\ prev.ev.pe.metadata.name = cur.ev.pe.metadata.name
    /\ prev.ev.pe.spec # cur.ev.pe.spec
    /\ prev.ev.pe.metadata.resourceVersion # cur.ev.pe.metadata.resourceVersion
    /\ Len(prev.calls) = 3
    /\ Len(cur.calls) >= 1

====
